---- MODULE Spec2Model ----
(***************************************************************************)
(* Climatology regression engine (utils.ts): calculateClimatology with its *)
(* MinMax scaler, linear-algebra kernel, OLS training, 366-day generative  *)
(* rollout, and the forecast window accessor getForecast; the text parser  *)
(* parseNASAData and the relocation heuristic adjustDataForLocation that   *)
(* feed it, and the matrix kernel multiply on arbitrary shapes.            *)
(*                                                                         *)
(* JavaScript numbers are modelled as rationals n/d in lowest terms with   *)
(* the three IEEE specials: NaN = 0/0, +Infinity = 1/0, -Infinity = -1/0.   *)
(* Arithmetic is exact while numerator and denominator stay within NumLim; *)
(* a result outside that format is rounded to the nearest multiple of      *)
(* 1/Grid, and a magnitude beyond the format becomes +-Infinity, the way   *)
(* IEEE doubles round and overflow at their own (far larger) limits.       *)
(***************************************************************************)
EXTENDS Integers, Sequences, FiniteSets, TLC

\* ------------------------------------------------------------------ bounds
NumLim == 30000
Grid == 64
MaxRecords == 9
MaxPattern == 3
MaxYears == 2
MaxNumDays == 6
MaxMissing == 3
MaxLines == 3
MaxSeed == 2
MaxDim == 3

\* calls of calculateClimatology in one behaviour
MaxCalls == 3

\* runs of processDataSequence in one behaviour
MaxRuns == 3

\* calls of fetchWeatherInsights in the life of one Dashboard
MaxRequests == 3

\* --------------------------------------------------------------- constants
WINDOW_SIZE == 7
DAYS == 366
NUM_WEIGHTS == 10
EpsRoot == 100000

\* ----------------------------------------------------------------- numbers
NaN == [n |-> 0, d |-> 0]
PosInf == [n |-> 1, d |-> 0]
NegInf == [n |-> -1, d |-> 0]

Abs(x) == IF x < 0 THEN -x ELSE x

Sgn(x) == IF x < 0 THEN -1 ELSE IF x > 0 THEN 1 ELSE 0

RECURSIVE Gcd(_, _)
Gcd(a, b) == IF b = 0 THEN a ELSE Gcd(b, a % b)

IsNaN(x) == x.d = 0 /\ x.n = 0

IsFinite(x) == x.d > 0

\* n/d (d > 0) rounded onto the 1/Grid lattice; beyond the format: +-Infinity
RoundToGrid(n, d) ==
  LET q == n \div d
      r == n % d
      s == (d \div (NumLim * 1000)) + 1
      r2 == r \div s
      d2 == IF d \div s = 0 THEN 1 ELSE d \div s
      k == (r2 * Grid + (d2 \div 2)) \div d2
      m == q * Grid + k
      g == Gcd(Abs(m), Grid)
  IN  IF q >= NumLim \div Grid THEN PosInf
      ELSE IF q < -(NumLim \div Grid) THEN NegInf
      ELSE [n |-> m \div g, d |-> Grid \div g]

\* the number n/d for integers n and d > 0
Norm(n, d) ==
  LET g == Gcd(Abs(n), d)
      n1 == n \div g
      d1 == d \div g
  IN  IF Abs(n1) <= NumLim /\ d1 <= NumLim THEN [n |-> n1, d |-> d1]
      ELSE RoundToGrid(n1, d1)

Int2Num(i) == Norm(i, 1)

Zero == Int2Num(0)
One == Int2Num(1)

\* a + b
Add(a, b) ==
  IF IsNaN(a) \/ IsNaN(b) THEN NaN
  ELSE IF a.d = 0 /\ b.d = 0 THEN (IF a.n = b.n THEN a ELSE NaN)
  ELSE IF a.d = 0 THEN a
  ELSE IF b.d = 0 THEN b
  ELSE Norm(a.n * b.d + b.n * a.d, a.d * b.d)

Neg(a) == [n |-> -a.n, d |-> a.d]

\* a - b
Sub(a, b) == Add(a, Neg(b))

\* a * b
Mul(a, b) ==
  IF IsNaN(a) \/ IsNaN(b) THEN NaN
  ELSE IF a.d = 0 \/ b.d = 0
       THEN (IF a.n = 0 \/ b.n = 0 THEN NaN
             ELSE IF Sgn(a.n) * Sgn(b.n) > 0 THEN PosInf ELSE NegInf)
  ELSE Norm(a.n * b.n, a.d * b.d)

\* a / b (the sign of a zero divisor is taken as positive)
Div(a, b) ==
  IF IsNaN(a) \/ IsNaN(b) THEN NaN
  ELSE IF a.d = 0 /\ b.d = 0 THEN NaN
  ELSE IF a.d = 0 THEN (IF Sgn(a.n) * Sgn(b.n) >= 0 THEN PosInf ELSE NegInf)
  ELSE IF b.d = 0 THEN Zero
  ELSE IF b.n = 0
       THEN (IF a.n = 0 THEN NaN ELSE IF a.n > 0 THEN PosInf ELSE NegInf)
  ELSE Norm(Sgn(b.n) * a.n * b.d, a.d * Abs(b.n))

\* a < b ; every comparison with NaN is false
Lt(a, b) ==
  IF IsNaN(a) \/ IsNaN(b) THEN FALSE
  ELSE IF a.d = 0 \/ b.d = 0
       THEN (a = NegInf /\ b # NegInf) \/ (b = PosInf /\ a # PosInf)
  ELSE a.n * b.d < b.n * a.d

\* Math.abs
NumAbs(a) == [n |-> Abs(a.n), d |-> a.d]

\* Math.abs(x) < 1e-10, with 1e-10 = 1 / (EpsRoot * EpsRoot)
BelowEpsilon(x) ==
  /\ IsFinite(x)
  /\ Abs(x.n) <= ((x.d - 1) \div EpsRoot) \div EpsRoot

\* parseFloat(x.toFixed(2)): nearest multiple of 1/100, ties away from zero
ToFixed2(x) ==
  IF x.d = 0 THEN x
  ELSE LET a == Abs(x.n)
           q == a \div x.d
           r == a % x.d
           h == (2 * r * 100 + x.d) \div (2 * x.d)
       IN  Norm(Sgn(x.n) * (q * 100 + h), 100)

RECURSIVE SumFrom(_, _, _)
\* s.reduce((a, b) => a + b, acc) from index i on.  Here and in the other
\* loops of this module the test acc # acc is never true: it makes the
\* running value be computed before the next iteration, as the code does
SumFrom(s, i, acc) ==
  IF i > Len(s) \/ acc # acc THEN acc
  ELSE SumFrom(s, i + 1, Add(acc, s[i]))

SumSeq(s) == SumFrom(s, 1, Zero)

RECURSIVE MinFrom(_, _, _)
MinFrom(s, i, acc) ==
  IF i > Len(s) \/ acc # acc THEN acc
  ELSE MinFrom(s, i + 1, IF IsNaN(acc) \/ IsNaN(s[i]) THEN NaN
                          ELSE IF Lt(s[i], acc) THEN s[i] ELSE acc)

\* Math.min(...s): Infinity for no arguments
NumMin(s) == MinFrom(s, 1, PosInf)

RECURSIVE MaxFrom(_, _, _)
MaxFrom(s, i, acc) ==
  IF i > Len(s) \/ acc # acc THEN acc
  ELSE MaxFrom(s, i + 1, IF IsNaN(acc) \/ IsNaN(s[i]) THEN NaN
                          ELSE IF Lt(acc, s[i]) THEN s[i] ELSE acc)

\* Math.max(...s): -Infinity for no arguments
NumMax(s) == MaxFrom(s, 1, NegInf)

\* JavaScript ===  (NaN is not equal to itself)
NumEq(a, b) == ~IsNaN(a) /\ a = b

\* ------------------------------------------------------- cyclical encoding
\* Math.sin / Math.cos of theta = 2*PI*doy/365.25 are irrational; the model
\* uses an eight-step wave of the same period, sign pattern and range.
WaveTable == << Zero, Norm(1, 2), One, Norm(1, 2),
                Zero, Norm(-1, 2), Int2Num(-1), Norm(-1, 2) >>

\* octant of theta: floor(8 * doy / 365.25) mod 8, with 365.25 = 1461/4
Octant(doy) == ((32 * doy) \div 1461) % 8

SinDoy(doy) == WaveTable[Octant(doy) + 1]

CosDoy(doy) == WaveTable[((Octant(doy) + 2) % 8) + 1]

\* ------------------------------------------------------------ MinMaxScaler
\* the scaler as constructed: min = 0, max = 1
NewScaler == [min |-> Zero, max |-> One]

\* fit(data)
Fit(values) ==
  LET mn == NumMin(values)
      mx == NumMax(values)
  IN  [min |-> mn, max |-> IF NumEq(mx, mn) THEN Add(mn, One) ELSE mx]

\* transform of one value
Transform1(sc, x) == Div(Sub(x, sc.min), Sub(sc.max, sc.min))

\* transform(data)
Transform(sc, values) == [i \in 1..Len(values) |-> Transform1(sc, values[i])]

InverseTransformNoShift(sc, val) == Mul(val, Sub(sc.max, sc.min))

\* inverseTransform(val)
InverseTransform(sc, val) == Add(Mul(val, Sub(sc.max, sc.min)), sc.min)

\* ---------------------------------------------------------- linear algebra
RECURSIVE DotFrom(_, _, _, _, _, _)
\* the k-loop of multiply: C[i][j] += A[i][k] * B[k][j]
DotFrom(A, B, i, j, k, acc) ==
  IF k > Len(A[1]) \/ acc # acc THEN acc
  ELSE DotFrom(A, B, i, j, k + 1, Add(acc, Mul(A[i][k], B[k][j])))

\* multiply(A, B) for A non-empty and B with at least A[0].length rows
Multiply(A, B) ==
  [i \in 1..Len(A) |-> [j \in 1..Len(B[1]) |-> DotFrom(A, B, i, j, 1, Zero)]]

\* transpose(A) for non-empty A (A[0] of an empty A is undefined: TypeError)
Transpose(A) == [i \in 1..Len(A[1]) |-> [r \in 1..Len(A) |-> A[r][i]]]

\* the augmented matrix [M | I] of inverse
Augment(M) ==
  LET n == Len(M)
  IN  [i \in 1..n |-> [j \in 1..(2 * n) |->
         IF j <= n THEN M[i][j] ELSE IF j - n = i THEN One ELSE Zero]]

RECURSIVE MaxRowFrom(_, _, _, _)
\* the pivot search of inverse: first row at or below i with the largest
\* absolute value in column i
MaxRowFrom(A, i, k, maxRow) ==
  IF k > Len(A) \/ maxRow # maxRow THEN maxRow
  ELSE MaxRowFrom(A, i, k + 1,
         IF Lt(NumAbs(A[maxRow][i]), NumAbs(A[k][i])) THEN k ELSE maxRow)

\* rows i and m exchanged
SwapRows(A, i, m) ==
  [r \in 1..Len(A) |-> IF r = i THEN A[m] ELSE IF r = m THEN A[i] ELSE A[r]]

\* the pivot inverse selects at column i
PivotOf(A, i) == SwapRows(A, i, MaxRowFrom(A, i, i + 1, i))[i][i]

\* one iteration of the column loop of inverse
InverseColumn(A, i) ==
  LET S == SwapRows(A, i, MaxRowFrom(A, i, i + 1, i))
      pivot == S[i][i]
      w == Len(S[1])
      rowI == [j \in 1..w |-> IF j >= i THEN Div(S[i][j], pivot) ELSE S[i][j]]
  IN  IF BelowEpsilon(pivot) THEN S
      ELSE [k \in 1..Len(S) |->
              IF k = i THEN rowI
              ELSE [j \in 1..w |->
                      IF j >= i THEN Sub(S[k][j], Mul(S[k][i], rowI[j]))
                      ELSE S[k][j]]]

\* the right half returned by inverse
RightHalf(A) ==
  LET n == Len(A)
  IN  [i \in 1..n |-> [j \in 1..n |-> A[i][n + j]]]

\* multiply(A, B) for any rectangular A and B: A[0] of an empty A and B[0] of
\* an empty B are undefined, and so is B[k] once k reaches B.length; reading a
\* property of undefined throws a TypeError. No shape is compared.
MultiplyOutcome(A, B) ==
  IF Len(A) = 0 \/ Len(B) = 0
  THEN [threw |-> "TypeError", value |-> << >>]
  ELSE IF Len(B) < Len(A[1]) /\ Len(B[1]) > 0
       THEN [threw |-> "TypeError", value |-> << >>]
       ELSE [threw |-> "none", value |-> Multiply(A, B)]

\* ------------------------------------------------------------------- text
\* A string is a sequence of one-character strings; a text is the sequence of
\* lines csvText.split('\n') produces.
IsSpace(c) == c \in {" ", "\t", "\r"}

RECURSIVE TrimStart(_)
TrimStart(s) ==
  IF s # << >> /\ IsSpace(Head(s)) THEN TrimStart(Tail(s)) ELSE s

RECURSIVE TrimEnd(_)
TrimEnd(s) ==
  IF s # << >> /\ IsSpace(s[Len(s)])
  THEN TrimEnd(SubSeq(s, 1, Len(s) - 1)) ELSE s

\* String.prototype.trim
Trim(s) == TrimEnd(TrimStart(s))

\* String.prototype.startsWith
StartsWith(s, prefix) ==
  Len(s) >= Len(prefix) /\ SubSeq(s, 1, Len(prefix)) = prefix

RECURSIVE SplitFrom(_, _, _, _)
SplitFrom(s, i, cur, acc) ==
  IF i > Len(s) THEN Append(acc, cur)
  ELSE IF s[i] \in {",", "\t"}
       THEN SplitFrom(s, i + 1, << >>, Append(acc, cur))
       ELSE SplitFrom(s, i + 1, Append(cur, s[i]), acc)

\* trimmed.split(/[,\t]/)
Split(s) == SplitFrom(s, 1, << >>, << >>)

Digits == << "0", "1", "2", "3", "4", "5", "6", "7", "8", "9" >>

IsDigit(c) == \E k \in 1..10 : Digits[k] = c

DigitVal(c) == (CHOOSE k \in 1..10 : Digits[k] = c) - 1

RECURSIVE DigitsValue(_, _, _)
DigitsValue(s, i, acc) ==
  IF i > Len(s) THEN acc ELSE DigitsValue(s, i + 1, 10 * acc + DigitVal(s[i]))

RECURSIVE Pow10(_)
Pow10(k) == IF k = 0 THEN 1 ELSE 10 * Pow10(k - 1)

AllDigits(s) == \A i \in 1..Len(s) : IsDigit(s[i])

\* position of the first "." of s, 0 when there is none
DotAt(s) ==
  IF \E i \in 1..Len(s) : s[i] = "."
  THEN CHOOSE i \in 1..Len(s) :
         s[i] = "." /\ \A j \in 1..(i - 1) : s[j] # "."
  ELSE 0

\* the value of an unsigned numeric string: digits with an optional point,
\* or the word Infinity; NaN for anything else (exponents and radix prefixes
\* do not occur in the modelled texts)
UnsignedValue(s) ==
  IF s = << "I", "n", "f", "i", "n", "i", "t", "y" >> THEN PosInf
  ELSE LET dot == DotAt(s)
           ip == IF dot = 0 THEN s ELSE SubSeq(s, 1, dot - 1)
           fp == IF dot = 0 THEN << >> ELSE SubSeq(s, dot + 1, Len(s))
       IN  IF AllDigits(ip) /\ AllDigits(fp) /\ Len(ip) + Len(fp) > 0
           THEN Norm(DigitsValue(ip, 1, 0) * Pow10(Len(fp))
                       + DigitsValue(fp, 1, 0), Pow10(Len(fp)))
           ELSE NaN

\* unary + on a string: surrounding white space is ignored, the empty string
\* is 0, an optional sign precedes the numeric part
ToNumber(str) ==
  LET t == Trim(str)
  IN  IF t = << >> THEN Zero
      ELSE IF Head(t) = "-" THEN Neg(UnsignedValue(Tail(t)))
      ELSE IF Head(t) = "+" THEN UnsignedValue(Tail(t))
      ELSE UnsignedValue(t)

\* ---------------------------------------------------------- parseNASAData
EndHeader == << "-", "E", "N", "D", " ", "H", "E", "A", "D", "E", "R", "-" >>

\* trimmed.startsWith('YEAR,DOY') || trimmed.startsWith('YEAR\tDOY')
IsColumnHeader(trimmed) ==
  \/ StartsWith(trimmed, << "Y", "E", "A", "R", ",", "D", "O", "Y" >>)
  \/ StartsWith(trimmed, << "Y", "E", "A", "R", "\t", "D", "O", "Y" >>)

IsEndHeaderOrColumns(trimmed) == trimmed = EndHeader \/ IsColumnHeader(trimmed)

\* trimmed === '-END HEADER-'
IsEndHeader(trimmed) == trimmed = EndHeader

\* the records one data line pushes: one, or none
LineRecords(trimmed) ==
  LET parts == Split(trimmed)
  IN  IF Len(parts) >= 4
      THEN LET year == ToNumber(parts[1])
               doy_ == ToNumber(parts[2])
               tempRange == ToNumber(parts[3])
               precip == ToNumber(parts[4])
           IN  IF ~IsNaN(year) /\ ~IsNaN(doy_) /\ ~IsNaN(tempRange)
                  /\ ~IsNaN(precip)
               THEN << [year |-> year, doy |-> doy_,
                        tempRange |-> tempRange, precip |-> precip] >>
               ELSE << >>
      ELSE << >>

RECURSIVE ParseFrom(_, _, _, _)
\* the line loop from line i on
ParseFrom(lines, i, headerFound, acc) ==
  IF i > Len(lines) THEN acc
  ELSE LET trimmed == Trim(lines[i])
       IN  IF trimmed = << >> THEN ParseFrom(lines, i + 1, headerFound, acc)
           ELSE IF IsEndHeader(trimmed) THEN ParseFrom(lines, i + 1, TRUE, acc)
           ELSE IF ~headerFound THEN ParseFrom(lines, i + 1, headerFound, acc)
           ELSE IF IsColumnHeader(trimmed)
                THEN ParseFrom(lines, i + 1, headerFound, acc)
           ELSE ParseFrom(lines, i + 1, headerFound,
                          acc \o LineRecords(trimmed))

\* parseNASAData(csvText), csvText given as its lines
ParseNASAData(lines) == ParseFrom(lines, 1, FALSE, << >>)

\* --------------------------------------------------- adjustDataForLocation
\* Math.random() yields a value of [0, 1); the k-th call of one run returns
\* the k-th value of a stream fixed by the seed of that run
RandomValues == << Zero, Norm(1, 4), Norm(1, 2), Norm(3, 4) >>

RandomDraw(seed, k) == RandomValues[((seed * k) % Len(RandomValues)) + 1]

\* octant of x = doy * 0.1 radians: floor(8 * x / (2 * PI)) mod 8, with
\* PI taken as 3.1416
TenthOctant(d) == ((500 * d.n) \div (3927 * d.d)) % 8

\* Math.sin(d.doy * 0.1) on the eight-step wave
SinTenth(d) == IF IsFinite(d) THEN WaveTable[TenthOctant(d) + 1] ELSE NaN

\* noise = sin(doy * 0.1) * 0.5 + (Math.random() - 0.5) * 1.5
Noise(d, r) ==
  Add(Mul(SinTenth(d), Norm(1, 2)), Mul(Sub(r, Norm(1, 2)), Norm(3, 2)))

\* tempChange = -(latDiff * 0.75)
TempChange(baseLat, newLat) ==
  Neg(Mul(Sub(NumAbs(newLat), NumAbs(baseLat)), Norm(3, 4)))

PolarPenaltyInclusive(newLat) ==
  ~Lt(newLat, Int2Num(60)) \/ ~Lt(Int2Num(-60), newLat)

\* newLat > 60 || newLat < -60
PolarPenalty(newLat) == Lt(Int2Num(60), newLat) \/ Lt(newLat, Int2Num(-60))

\* the record the map callback returns for the i-th record d
AdjustRecord(d, i, baseLat, newLat, seed) ==
  LET noise == Noise(d.doy, RandomDraw(seed, 2 * i - 1))
      newTemp == Add(Add(d.tempRange, TempChange(baseLat, newLat)), noise)
  IN  [ year      |-> d.year,
        doy       |-> d.doy,
        tempRange |-> IF PolarPenalty(newLat)
                      THEN Sub(newTemp, Int2Num(5)) ELSE newTemp,
        precip    |-> NumMax(<< Zero,
                        Mul(d.precip, Add(Norm(4, 5),
                              Mul(RandomDraw(seed, 2 * i), Norm(2, 5)))) >>) ]

\* adjustDataForLocation(data, baseLat, newLat)
AdjustDataForLocation(recs, baseLat, newLat, seed) ==
  [i \in 1..Len(recs) |-> AdjustRecord(recs[i], i, baseLat, newLat, seed)]

\* ------------------------------------------------------------------ inputs
StartDoys == {1, 365}

\* the i-th record of an input list: years interleave, so the list arrives
\* unsorted and one day of year recurs in several years
InputRecord(i, pat, start) ==
  [ year      |-> 2000 + ((i - 1) % MaxYears),
    doy       |-> ((start - 1 + ((i - 1) \div MaxYears)) % DAYS) + 1,
    tempRange |-> Int2Num(15 * pat - 20 + 5 * pat * ((i * i + pat) % 3)),
    precip    |-> Int2Num((i + pat) % 3) ]

PatternInputs ==
  { [i \in 1..len |-> InputRecord(i, pat, start)] :
      len \in 0..MaxRecords, pat \in 0..MaxPattern, start \in StartDoys }

\* the lines texts are made of: the sentinel and
\*   "2000,1,5,2"         a well-formed data line
\*   "2001\t2\t-3.5\t0"   tab separated, with a sign and a decimal point
\*   "2000,,5,1"          the day-of-year field is empty
\*   "2000,4,x,1"         a field that is not a number
\*   "2000,5,Infinity,1"  a field that is infinite
\*   "2000,6,7"           three fields only
\*   "2000,400,5,-999"    day 400, and the fill value -999 as precipitation
\*   "2000,1.5,5,1"       a fractional day of year
\*   "  "                 white space only
\*   " -END HEADER-\r"    the sentinel of a CRLF file, indented
\*   "YEAR,DOY,T,P"       the column header
LinePool ==
  { EndHeader,
    << "2", "0", "0", "0", ",", "1", ",", "5", ",", "2" >>,
    << "2", "0", "0", "1", "\t", "2", "\t", "-", "3", ".", "5", "\t", "0" >>,
    << "2", "0", "0", "0", ",", ",", "5", ",", "1" >>,
    << "2", "0", "0", "0", ",", "4", ",", "x", ",", "1" >>,
    << "2", "0", "0", "0", ",", "5", ",", "I", "n", "f", "i", "n", "i",
       "t", "y", ",", "1" >>,
    << "2", "0", "0", "0", ",", "6", ",", "7" >>,
    << "2", "0", "0", "0", ",", "4", "0", "0", ",", "5", ",", "-", "9",
       "9", "9" >>,
    << "2", "0", "0", "0", ",", "1", ".", "5", ",", "5", ",", "1" >>,
    << " ", " " >>,
    << " ", "-", "E", "N", "D", " ", "H", "E", "A", "D", "E", "R", "-",
       "\r" >>,
    << "Y", "E", "A", "R", ",", "D", "O", "Y", ",", "T", ",", "P" >>
  }

\* every text of at most MaxLines lines over the pool
Texts == UNION { [1..n -> LinePool] : n \in 0..MaxLines }

RECURSIVE Numeral(_)
\* the decimal digits of k >= 0
Numeral(k) ==
  IF k < 10 THEN << Digits[k + 1] >>
  ELSE Numeral(k \div 10) \o << Digits[(k % 10) + 1] >>

SignedNumeral(k) == IF k < 0 THEN << "-" >> \o Numeral(-k) ELSE Numeral(k)

\* the line "year,doy,tempRange,precip"
DataLine(year, d, t, p) ==
  Numeral(year) \o << "," >> \o Numeral(d) \o << "," >>
    \o SignedNumeral(t) \o << "," >> \o SignedNumeral(p)

\* precipitation column of the i-th line: odd patterns carry the fill value
FileRainfall(i, pat) ==
  IF pat % 2 = 1 /\ i % 4 = 1 THEN -999 ELSE (i + pat) % 3

\* a file: the sentinel line followed by len data lines
FileText(len, pat) ==
  << EndHeader >> \o
  [i \in 1..len |->
     DataLine(2000 + ((i - 1) % MaxYears), 1 + ((i - 1) \div MaxYears),
              15 * pat - 20 + 5 * pat * ((i * i + pat) % 3),
              FileRainfall(i, pat))]

\* the files, and one whose first record carries day 1500 of 2000 ahead of
\* day 1 of 2001
FileTexts ==
  { FileText(len, pat) : len \in {1, MaxRecords - 1, MaxRecords},
                         pat \in 0..1 }
  \cup { << EndHeader, DataLine(2000, 1500, 5, 0), DataLine(2001, 1, 5, 0) >> }

\* latitudes of the relocation
BaseLats == { Norm(131, 10), Int2Num(-45) }

NewLats == { Int2Num(-61), Int2Num(-60), Int2Num(60), Int2Num(61) }

\* r by c matrices with entries -1, 0, 1; no rows at all for r = 0
MatrixOf(r, c, pat) ==
  [i \in 1..r |-> [j \in 1..c |-> Int2Num(((i * (pat + 1) + j) % 3) - 1)]]

Matrices ==
  { MatrixOf(r, c, pat) : r \in 0..MaxDim, c \in 1..MaxDim, pat \in 0..1 }

\* record lists whose mean raw temperature lies exactly on a bound of the
\* bias test
EdgeInputs ==
  { [i \in 1..len |->
       [year |-> 2000, doy |-> i, tempRange |-> Int2Num(c), precip |-> Zero]] :
      len \in 1..2, c \in {-5, 15} }

\* thirty consecutive days that all carry the same temperature c: one c
\* whose mean lies inside the range of the bias test, two outside it
ConstantInputs ==
  { [i \in 1..30 |->
       [year |-> 2000, doy |-> i, tempRange |-> Int2Num(c), precip |-> Zero]] :
      c \in {-20, 5, 25} }

Inputs == PatternInputs \cup EdgeInputs \cup ConstantInputs

\* the lists of repeated calls: one too short to train on, two that train
CallInputs ==
  { [i \in 1..lp[1] |-> InputRecord(i, lp[2], 1)] :
      lp \in { << WINDOW_SIZE, 1 >>, << MaxRecords, 1 >>,
                << MaxRecords, 2 >> } }

\* -------------------------------------------------------------------- state
VARIABLES
  pc,           \* position in calculateClimatology
  data,         \* the record array passed by the caller
  scaler,       \* MinMaxScaler fields min, max
  scaledTemps,  \* scaler.transform(rawTemps)
  X,            \* feature rows
  y,            \* targets
  A,            \* augmented matrix of inverse
  col,          \* column index i of inverse (1-based)
  pivots,       \* the pivot read at each column of inverse so far
  caught,       \* what the try block of the training step threw
  weights,      \* the weight vector used by the rollout
  precipMap,    \* doy -> precip values
  currentLags,  \* the lag buffer
  doy,          \* rollout day
  preds,        \* scaledPrediction of each rollout day so far
  climMap,      \* the map under construction, returned at the end
  fpc,          \* position in getForecast
  fcArgs,       \* arguments startDoy, days of the getForecast call
  fcI,          \* loop counter i of getForecast
  fcCur,        \* currentDoy of getForecast
  forecast,     \* the forecast array of getForecast
  csvText,      \* the lines of the text given to parseNASAData
  parsedData,   \* the caller's record list (parsed, then possibly adjusted)
  ppc,          \* position of the caller in the parse / adjust sequence
  adjArgs,      \* arguments of the adjustDataForLocation call
  mulA,         \* left argument of a multiply call
  mulB,         \* right argument of a multiply call
  mulOut,       \* outcome of the multiply call
  given,        \* the record list as the caller passed it to the current call
  callLog,      \* input and returned map of each earlier call
  appState,     \* App: appState
  error,        \* App: error
  climatology,  \* App: climatology
  rawData,      \* App: rawDataRef.current, as lines (no lines: the empty string)
  apc,          \* App: position of the processDataSequence run
  run,          \* App: arguments of the run, and the number of runs so far
  projectionDays, \* Dashboard: projectionDays
  todayData,    \* Dashboard: todayData (no element: null)
  dashForecast, \* Dashboard: forecast (the list, and the days it was computed for)
  queued,       \* Dashboard: state updates scheduled by the forecast effect
  pending,      \* Dashboard: effects of the current commit still to run
  insight,      \* Dashboard: the request whose response insight shows (0: null)
  loadingAI,    \* Dashboard: loadingAI
  requests,     \* Dashboard: every fetchWeatherInsights call so far
  outstanding   \* Dashboard: requests not yet resolved

engineVars == << pc, data, scaler, scaledTemps, X, y, A, col, pivots, caught,
                weights, precipMap, currentLags, doy, preds, climMap >>

fcVars == << fpc, fcArgs, fcI, fcCur, forecast >>

\* the caller's side of the data pipeline: parse, relocate, hand over
ioVars == << csvText, parsedData, ppc, adjArgs, given >>

mulVars == << mulA, mulB, mulOut >>

appVars == << appState, error, climatology, rawData, apc, run >>

dashVars == << projectionDays, todayData, dashForecast, queued, pending,
              insight, loadingAI, requests, outstanding >>

uiVars == << callLog, appVars, dashVars >>

vars == << engineVars, fcVars, ioVars, mulVars, uiVars >>

NoMap == [d \in {} |-> 0]

NoAdjust == [data |-> << >>, baseLat |-> Zero, newLat |-> Zero, seed |-> 0]

NoOutcome == [threw |-> "pending", value |-> << >>]

\* no text is being processed
IoIdle ==
  /\ csvText = << >>
  /\ parsedData = << >>
  /\ ppc = "none"
  /\ adjArgs = NoAdjust

\* no multiply call under observation
MulIdle ==
  /\ mulA = << >>
  /\ mulB = << >>
  /\ mulOut = NoOutcome

NoArgs == [startDoy |-> 0, days |-> 0]

\* const BASE_LAT = 13.1186
BASE_LAT == Norm(131186, 10000)

\* App and Dashboard after their useState and useRef initialisers, before any
\* effect has run; no earlier engine call is on record
UiIdle ==
  /\ callLog = << >>
  /\ appState = "LOADING"
  /\ error = "null"
  /\ climatology = NoMap
  /\ rawData = << >>
  /\ apc = "mount"
  /\ run = [isInitial |-> TRUE, override |-> << >>, lat |-> BASE_LAT,
            count |-> 0]
  /\ projectionDays = 7
  /\ todayData = << >>
  /\ dashForecast = [list |-> << >>, days |-> 0]
  /\ queued = << >>
  /\ pending = << >>
  /\ insight = 0
  /\ loadingAI = FALSE
  /\ requests = << >>
  /\ outstanding = {}

Init ==
  /\ pc = "call"
  /\ data \in Inputs
  /\ scaler = NewScaler
  /\ scaledTemps = << >>
  /\ X = << >>
  /\ y = << >>
  /\ A = << >>
  /\ col = 0
  /\ pivots = << >>
  /\ caught = "none"
  /\ weights = << >>
  /\ precipMap = NoMap
  /\ currentLags = << >>
  /\ doy = 0
  /\ preds = << >>
  /\ climMap = NoMap
  /\ fpc = "idle"
  /\ fcArgs = NoArgs
  /\ fcI = 0
  /\ fcCur = 0
  /\ forecast = << >>
  /\ IoIdle
  /\ MulIdle
  /\ given = data
  /\ UiIdle

\* ------------------------------------------------------------ preprocessing
SortKey(r) == r.year * 1000 + r.doy

RECURSIVE InsertRecord(_, _)
\* r placed after every element whose key is not larger (stable)
InsertRecord(sorted, r) ==
  IF sorted = << >> THEN << r >>
  ELSE IF SortKey(sorted[Len(sorted)]) - SortKey(r) <= 0
       THEN Append(sorted, r)
       ELSE Append(InsertRecord(SubSeq(sorted, 1, Len(sorted) - 1), r),
                   sorted[Len(sorted)])

RECURSIVE SortFrom(_, _, _)
SortFrom(recs, i, sorted) ==
  IF i > Len(recs) \/ sorted # sorted THEN sorted
  ELSE SortFrom(recs, i + 1, InsertRecord(sorted, recs[i]))

\* data.sort((a, b) => (a.year*1000 + a.doy) - (b.year*1000 + b.doy))
SortRecords(recs) == SortFrom(recs, 1, << >>)

BiasOffsetInclusive(avgRaw) ==
  IF ~Lt(Int2Num(15), avgRaw) /\ ~Lt(avgRaw, Int2Num(-5))
  THEN Int2Num(20) ELSE Zero

\* BIAS_OFFSET for the mean avgRaw
BiasOffset(avgRaw) ==
  IF Lt(avgRaw, Int2Num(15)) /\ Lt(Int2Num(-5), avgRaw)
  THEN Int2Num(20) ELSE Zero

\* rawTemps after the bias correction
RawTemps(recs) ==
  LET raw == [i \in 1..Len(recs) |-> recs[i].tempRange]
      avgRaw == Div(SumSeq(raw), Int2Num(Len(raw)))
  IN  [i \in 1..Len(raw) |-> Add(raw[i], BiasOffset(avgRaw))]

LagsOldestFirst(scaled, i) ==
  [k \in 1..WINDOW_SIZE |-> scaled[i - WINDOW_SIZE + k - 1]]

\* the lags pushed for 1-based index i: scaledTemps[i-1], ..., scaledTemps[i-7]
LagsAt(scaled, i) == [k \in 1..WINDOW_SIZE |-> scaled[i - k]]

\* [1, sin_doy, cos_doy, ...lags]
FeatureRow(d, lags) == << One, SinDoy(d), CosDoy(d) >> \o lags

\* the rows pushed to X by the sliding-window loop
BuildX(recs, scaled) ==
  [r \in 1..(IF Len(recs) > WINDOW_SIZE THEN Len(recs) - WINDOW_SIZE ELSE 0) |->
     FeatureRow(recs[r + WINDOW_SIZE].doy, LagsAt(scaled, r + WINDOW_SIZE))]

\* the rows pushed to y
BuildY(recs, scaled) ==
  [r \in 1..(IF Len(recs) > WINDOW_SIZE THEN Len(recs) - WINDOW_SIZE ELSE 0) |->
     << scaled[r + WINDOW_SIZE] >>]

\* sort, bias correction, scaling and the sliding-window data set
Preprocess ==
  /\ pc = "call"
  /\ \E sorted \in {SortRecords(data)} :
       \E rawTemps \in {RawTemps(sorted)} :
         \E sc \in {Fit(rawTemps)} :
           \E scaled \in {Transform(sc, rawTemps)} :
             /\ data' = sorted
             /\ scaler' = sc
             /\ scaledTemps' = scaled
             /\ X' = BuildX(sorted, scaled)
             /\ y' = BuildY(sorted, scaled)
  /\ pc' = "try"
  /\ UNCHANGED << A, col, pivots, caught, weights, precipMap, currentLags,
                  doy, preds, climMap, fcVars,
                  ioVars, mulVars, uiVars >>

\* ----------------------------------------------------------------- training
\* variant: the intercept is a module-level value that every call moves
FallbackWeightsDrift ==
  [w \in 1..NUM_WEIGHTS |->
     IF w = 1 THEN Norm(1 + Len(callLog), 2) ELSE Zero]

\* weights = Array(10).fill(0); weights[0] = 0.5
FallbackWeights == [w \in 1..NUM_WEIGHTS |-> IF w = 1 THEN Norm(1, 2) ELSE Zero]

\* try: transpose(X) reads X[0].map of an empty X and throws a TypeError
TrainThrows ==
  /\ pc = "try"
  /\ Len(X) = 0
  /\ caught' = "TypeError"
  /\ pc' = "catch"
  /\ UNCHANGED << data, scaler, scaledTemps, X, y, A, col, pivots, weights,
                  precipMap, currentLags, doy, preds, climMap, fcVars,
                  ioVars, mulVars, uiVars >>

\* try: Xt = transpose(X); XtX = multiply(Xt, X); inverse(XtX) is entered
TrainStart ==
  /\ pc = "try"
  /\ Len(X) > 0
  /\ A' = Augment(Multiply(Transpose(X), X))
  /\ col' = 1
  /\ pivots' = << >>
  /\ pc' = "inverse"
  /\ UNCHANGED << data, scaler, scaledTemps, X, y, caught, weights,
                  precipMap, currentLags, doy, preds, climMap, fcVars,
                  ioVars, mulVars, uiVars >>

\* inverse: one pass of the column loop (pivot, singularity check, eliminate)
InverseStep ==
  /\ pc = "inverse"
  /\ col <= Len(A)
  /\ pivots' = Append(pivots, PivotOf(A, col))
  /\ A' = InverseColumn(A, col)
  /\ col' = col + 1
  /\ UNCHANGED << pc, data, scaler, scaledTemps, X, y, caught, weights,
                  precipMap, currentLags, doy, preds, climMap, fcVars,
                  ioVars, mulVars, uiVars >>

\* weights from Beta_mat = XtX_inv * XtY, flattened
SolveWeights(XtX_inv, XtY) ==
  LET Beta_mat == Multiply(XtX_inv, XtY)
  IN  [w \in 1..Len(Beta_mat) |-> Beta_mat[w][1]]

\* inverse returns the right half; the try block completes
TrainFinish ==
  /\ pc = "inverse"
  /\ col > Len(A)
  /\ \E XtX_inv \in {RightHalf(A)} :
       \E XtY \in {Multiply(Transpose(X), y)} :
         weights' = SolveWeights(XtX_inv, XtY)
  /\ pc' = "seed"
  /\ UNCHANGED << data, scaler, scaledTemps, X, y, A, col, pivots, caught,
                  precipMap, currentLags, doy, preds, climMap, fcVars,
                  ioVars, mulVars, uiVars >>

\* catch (e): the fallback weights
TrainFallback ==
  /\ pc = "catch"
  /\ weights' = FallbackWeights
  /\ pc' = "seed"
  /\ UNCHANGED << data, scaler, scaledTemps, X, y, A, col, pivots, caught,
                  precipMap, currentLags, doy, preds, climMap, fcVars,
                  ioVars, mulVars, uiVars >>

\* ------------------------------------------------------------------ rollout
RECURSIVE PrecipOf(_, _, _, _)
\* the precip values of the records with day of year d, in list order
PrecipOf(recs, d, i, acc) ==
  IF i > Len(recs) \/ acc # acc THEN acc
  ELSE PrecipOf(recs, d, i + 1,
         IF recs[i].doy = d THEN Append(acc, recs[i].precip) ELSE acc)

\* variant: each day keeps only the value pushed last
BuildPrecipMapLast(recs) ==
  [d \in {recs[i].doy : i \in 1..Len(recs)} |->
     LET all == PrecipOf(recs, d, 1, << >>) IN << all[Len(all)] >>]

\* precipMap after data.forEach
BuildPrecipMap(recs) ==
  [d \in {recs[i].doy : i \in 1..Len(recs)} |-> PrecipOf(recs, d, 1, << >>)]

Reverse(s) == [i \in 1..Len(s) |-> s[Len(s) + 1 - i]]

\* scaledTemps.slice(-WINDOW_SIZE).reverse()
SeedLags(scaled) ==
  LET len == Len(scaled)
      first == IF len > WINDOW_SIZE THEN len - WINDOW_SIZE + 1 ELSE 1
  IN  Reverse(SubSeq(scaled, first, len))

\* the precipitation map and the seed of the lag buffer
Seed ==
  /\ pc = "seed"
  /\ precipMap' = BuildPrecipMap(data)
  /\ currentLags' = SeedLags(scaledTemps)
  /\ doy' = 1
  /\ pc' = "rollout"
  /\ UNCHANGED << data, scaler, scaledTemps, X, y, A, col, pivots, caught,
                  weights, preds, climMap, fcVars,
                  ioVars, mulVars, uiVars >>

RECURSIVE PredictFrom(_, _, _, _)
\* scaledPrediction += weights[w] * features[w]; a feature read past the end
\* of the row is undefined and the product is NaN
PredictFrom(ws, features, w, acc) ==
  IF w > Len(ws) \/ acc # acc THEN acc
  ELSE PredictFrom(ws, features, w + 1,
         Add(acc, IF w <= Len(features) THEN Mul(ws[w], features[w]) ELSE NaN))

Predict(ws, features) == PredictFrom(ws, features, 1, Zero)

\* variant: the prediction is pushed at the back instead of the front
ShiftLagsAtBack(lags, scaledPrediction) ==
  (IF Len(lags) = 0 THEN lags ELSE SubSeq(lags, 1, Len(lags) - 1))
     \o << scaledPrediction >>

\* currentLags.pop(); currentLags.unshift(scaledPrediction)
ShiftLags(lags, scaledPrediction) ==
  << scaledPrediction >> \o
     (IF Len(lags) = 0 THEN lags ELSE SubSeq(lags, 1, Len(lags) - 1))

\* pVals = precipMap.get(doy) || [0]
PVals(pmap, d) == IF d \in DOMAIN pmap THEN pmap[d] ELSE << Zero >>

\* the Climatology stored for day d
ClimEntry(d, sc, pmap, scaledPrediction) ==
  LET pVals == PVals(pmap, d)
      avgPrecip == Div(SumSeq(pVals),
                       Int2Num(IF Len(pVals) = 0 THEN 1 ELSE Len(pVals)))
  IN  [ doy       |-> d,
        avgTemp   |-> ToFixed2(InverseTransform(sc, scaledPrediction)),
        avgPrecip |-> ToFixed2(avgPrecip),
        count     |-> Len(pVals) ]

\* climMap.set(key, value)
MapSet(m, key, value) ==
  [k \in DOMAIN m \cup {key} |-> IF k = key THEN value ELSE m[k]]

\* variant: the loop body never runs
RolloutNever(d) == FALSE

\* variant: the loop stops one day early
RolloutStopsEarly(d) == d < DAYS

\* the loop condition doy <= 366
RolloutContinues(d) == d <= DAYS

\* one iteration of the generative loop
RolloutStep ==
  /\ pc = "rollout"
  /\ RolloutContinues(doy)
  /\ LET scaledPrediction == Predict(weights, FeatureRow(doy, currentLags))
     IN  /\ currentLags' = ShiftLags(currentLags, scaledPrediction)
         /\ preds' = Append(preds, scaledPrediction)
         /\ climMap' = MapSet(climMap, doy, ClimEntry(doy, scaler, precipMap,
                                                    scaledPrediction))
  /\ doy' = doy + 1
  /\ UNCHANGED << pc, data, scaler, scaledTemps, X, y, A, col, pivots, caught,
                  weights, precipMap, fcVars, ioVars, mulVars, uiVars >>

\* return climMap
Return ==
  /\ pc = "rollout"
  /\ ~RolloutContinues(doy)
  /\ pc' = "done"
  /\ UNCHANGED << data, scaler, scaledTemps, X, y, A, col, pivots, caught,
                  weights, precipMap, currentLags, doy, preds, climMap,
                  fcVars, ioVars, mulVars, uiVars >>

\* ------------------------------------------------------------- getForecast
\* variant: the wrap happens one day early
WrapDoyEarly(currentDoy) == IF currentDoy >= DAYS THEN 1 ELSE currentDoy

\* if (currentDoy > 366) currentDoy = 1
WrapDoy(currentDoy) == IF currentDoy > DAYS THEN 1 ELSE currentDoy

\* variant: a missing day is filled with the previous entry
PushClimOrPrevious(cmap, currentDoy, acc) ==
  IF currentDoy \in DOMAIN cmap
  THEN Append(acc, cmap[currentDoy])
  ELSE IF Len(acc) > 0 THEN Append(acc, acc[Len(acc)]) ELSE acc

\* const clim = climatology.get(currentDoy); if (clim) forecast.push(clim)
PushClim(cmap, currentDoy, acc) ==
  IF currentDoy \in DOMAIN cmap
  THEN Append(acc, cmap[currentDoy]) ELSE acc

StartDays == {-2, 0, 1, 2 * DAYS} \cup (DAYS - 2)..(DAYS + 1)

LongStarts == {DAYS - 2}

\* getForecast(climMap, s, n) is entered: forecast = [], currentDoy = startDoy
ForecastCall ==
  /\ pc = "done"
  /\ fpc = "idle"
  /\ \E s \in StartDays, n \in 0..MaxNumDays \cup {DAYS} :
       /\ n = DAYS => s \in LongStarts
       /\ fcArgs' = [startDoy |-> s, days |-> n]
       /\ fcCur' = s
  /\ fcI' = 0
  /\ forecast' = << >>
  /\ fpc' = "loop"
  /\ UNCHANGED << engineVars, ioVars, mulVars, uiVars >>

\* one iteration of the loop of getForecast
ForecastStep ==
  /\ fpc = "loop"
  /\ fcI < fcArgs.days
  /\ forecast' = PushClim(climMap, WrapDoy(fcCur), forecast)
  /\ fcCur' = WrapDoy(fcCur) + 1
  /\ fcI' = fcI + 1
  /\ UNCHANGED << engineVars, ioVars, mulVars, uiVars, fcArgs, fpc >>

\* return forecast
ForecastReturn ==
  /\ fpc = "loop"
  /\ ~(fcI < fcArgs.days)
  /\ fpc' = "returned"
  /\ UNCHANGED << engineVars, ioVars, mulVars, uiVars, fcArgs, fcI, fcCur, forecast >>

Next ==
  \/ Preprocess
  \/ TrainThrows
  \/ TrainStart
  \/ InverseStep
  \/ TrainFinish
  \/ TrainFallback
  \/ Seed
  \/ RolloutStep
  \/ Return
  \/ ForecastCall
  \/ ForecastStep
  \/ ForecastReturn

Spec == Init /\ [][Next]_vars

\* ------------------------------------------------- getForecast on any map
\* a complete map with one entry per day
BaseMap ==
  [d \in 1..DAYS |->
     [doy |-> d, avgTemp |-> Int2Num(20), avgPrecip |-> Zero, count |-> 1]]

MissingSeq == << DAYS, 1, 2, DAYS - 1, 183 >>

\* maps with some days missing, the complete map and the empty map
TestMaps ==
  { [d \in (1..DAYS) \ M |-> BaseMap[d]] :
      M \in SUBSET {MissingSeq[i] : i \in 1..MaxMissing} } \cup {NoMap}

InitForecast ==
  /\ pc = "done"
  /\ data = << >>
  /\ scaler = NewScaler
  /\ scaledTemps = << >>
  /\ X = << >>
  /\ y = << >>
  /\ A = << >>
  /\ col = 0
  /\ pivots = << >>
  /\ caught = "none"
  /\ weights = << >>
  /\ precipMap = NoMap
  /\ currentLags = << >>
  /\ doy = 0
  /\ preds = << >>
  /\ climMap \in TestMaps
  /\ fpc = "idle"
  /\ fcArgs = NoArgs
  /\ fcI = 0
  /\ fcCur = 0
  /\ forecast = << >>
  /\ IoIdle
  /\ MulIdle
  /\ given = data
  /\ UiIdle

NextForecast ==
  \/ ForecastCall
  \/ ForecastStep
  \/ ForecastReturn

SpecForecast == InitForecast /\ [][NextForecast]_vars

\* ------------------------------------------- parse, relocate, hand over
\* calculateClimatology has not been called
EngineUnused ==
  /\ pc = "wait"
  /\ data = << >>
  /\ scaler = NewScaler
  /\ scaledTemps = << >>
  /\ X = << >>
  /\ y = << >>
  /\ A = << >>
  /\ col = 0
  /\ pivots = << >>
  /\ caught = "none"
  /\ weights = << >>
  /\ precipMap = NoMap
  /\ currentLags = << >>
  /\ doy = 0
  /\ preds = << >>
  /\ climMap = NoMap

\* getForecast has not been called
FcIdle ==
  /\ fpc = "idle"
  /\ fcArgs = NoArgs
  /\ fcI = 0
  /\ fcCur = 0
  /\ forecast = << >>

\* let parsedData = parseNASAData(csvText)
ParseText ==
  /\ ppc = "text"
  /\ parsedData' = ParseNASAData(csvText)
  /\ ppc' = "parsed"
  /\ UNCHANGED << engineVars, fcVars, mulVars, uiVars, csvText, adjArgs, given >>

\* parsedData = adjustDataForLocation(parsedData, baseLat, newLat)
AdjustData ==
  /\ ppc = "parsed"
  /\ \E baseLat \in BaseLats, newLat \in NewLats, seed \in 1..MaxSeed :
       /\ adjArgs' = [data |-> parsedData, baseLat |-> baseLat,
                      newLat |-> newLat, seed |-> seed]
       /\ parsedData' = AdjustDataForLocation(parsedData, baseLat, newLat, seed)
  /\ ppc' = "adjusted"
  /\ UNCHANGED << engineVars, fcVars, mulVars, uiVars, csvText, given >>

\* year and doy of every record are whole numbers (the engine's data keeps
\* them as integers)
WholeDates(recs) ==
  \A i \in 1..Len(recs) : recs[i].year.d = 1 /\ recs[i].doy.d = 1

\* the same records with year and doy as integers
EngineRecords(recs) ==
  [i \in 1..Len(recs) |->
     [year |-> recs[i].year.n, doy |-> recs[i].doy.n,
      tempRange |-> recs[i].tempRange, precip |-> recs[i].precip]]

\* calculateClimatology(parsedData) is entered
CallEngine ==
  /\ pc = "wait"
  /\ ppc \in {"parsed", "adjusted"}
  /\ WholeDates(parsedData)
  /\ data' = EngineRecords(parsedData)
  /\ given' = EngineRecords(parsedData)
  /\ pc' = "call"
  /\ ppc' = "called"
  /\ UNCHANGED << scaler, scaledTemps, X, y, A, col, pivots, caught, weights,
                  precipMap, currentLags, doy, preds, climMap, fcVars,
                  mulVars, uiVars, csvText, parsedData, adjArgs >>

\* parseNASAData and adjustDataForLocation on every text over the line pool
InitParse ==
  /\ EngineUnused
  /\ FcIdle
  /\ MulIdle
  /\ given = << >>
  /\ UiIdle
  /\ csvText \in Texts
  /\ parsedData = << >>
  /\ ppc = "text"
  /\ adjArgs = NoAdjust

NextParse ==
  \/ ParseText
  \/ AdjustData

SpecParse == InitParse /\ [][NextParse]_vars

\* a file is parsed, possibly relocated, and given to calculateClimatology
InitPipeline ==
  /\ EngineUnused
  /\ FcIdle
  /\ MulIdle
  /\ given = << >>
  /\ UiIdle
  /\ csvText \in FileTexts
  /\ parsedData = << >>
  /\ ppc = "text"
  /\ adjArgs = NoAdjust

NextPipeline ==
  \/ ParseText
  \/ AdjustData
  \/ CallEngine
  \/ Preprocess
  \/ TrainThrows
  \/ TrainStart
  \/ InverseStep
  \/ TrainFinish
  \/ TrainFallback
  \/ Seed
  \/ RolloutStep
  \/ Return

SpecPipeline == InitPipeline /\ [][NextPipeline]_vars

\* --------------------------------------------------- multiply on any shapes
MultiplyCall ==
  /\ mulOut.threw = "pending"
  /\ mulOut' = MultiplyOutcome(mulA, mulB)
  /\ UNCHANGED << engineVars, fcVars, ioVars, uiVars, mulA, mulB >>

InitMultiply ==
  /\ EngineUnused
  /\ FcIdle
  /\ IoIdle
  /\ given = << >>
  /\ UiIdle
  /\ mulA \in Matrices
  /\ mulB \in Matrices
  /\ mulOut = NoOutcome

NextMultiply == MultiplyCall

SpecMultiply == InitMultiply /\ [][NextMultiply]_vars

\* ------------------------------------------------------- repeated calls
\* calculateClimatology(list) is entered: the activation declares its own
\* climMap, scaler, X, y, weights, precipMap and currentLags
EnterCall(list) ==
  /\ data' = list
  /\ given' = list
  /\ pc' = "call"
  /\ scaler' = NewScaler
  /\ scaledTemps' = << >>
  /\ X' = << >>
  /\ y' = << >>
  /\ A' = << >>
  /\ col' = 0
  /\ pivots' = << >>
  /\ caught' = "none"
  /\ weights' = << >>
  /\ precipMap' = NoMap
  /\ currentLags' = << >>
  /\ doy' = 0
  /\ preds' = << >>
  /\ climMap' = NoMap

\* the call has returned and calculateClimatology is called again; the
\* returned map is put on record
CallAgain ==
  /\ pc = "done"
  /\ Len(callLog) + 1 < MaxCalls
  /\ callLog' = Append(callLog, [input |-> given, output |-> climMap])
  /\ \E next \in CallInputs : EnterCall(next)
  /\ UNCHANGED << fcVars, mulVars, appVars, dashVars,
                  csvText, parsedData, ppc, adjArgs >>

\* calculateClimatology called up to MaxCalls times in a row
InitCalls ==
  /\ Init
  /\ data \in CallInputs

NextCalls ==
  \/ Preprocess
  \/ TrainThrows
  \/ TrainStart
  \/ InverseStep
  \/ TrainFinish
  \/ TrainFallback
  \/ Seed
  \/ RolloutStep
  \/ Return
  \/ CallAgain

SpecCalls == InitCalls /\ [][NextCalls]_vars

\* ------------------------------------------------------ App (src/App.tsx)
\* a string is falsy when it is empty: no line, or one line without characters
IsEmptyString(text) == text = << >> \/ text = << << >> >>

\* what ./data/weatherData may export: a short file and a long one
BundledTexts == { FileText(1, 0), FileText(MaxRecords, 0) }



\* clim.size === 0
SizeIsZero(clim) == Cardinality(DOMAIN clim) = 0

\* variant: every failure is reported with the text kept for non-Error values
HandleErrorAnonymous(message) ==
  /\ error' = "An unexpected anomaly occurred during data initialization."
  /\ apc' = "failed"

\* handleError(new Error(message)): setError(e.message)
HandleError(message) ==
  /\ error' = message
  /\ apc' = "failed"

\* the mount effect: processDataSequence(location.lat, location.lon, true)
AppMount ==
  /\ apc = "mount"
  /\ run' = [run EXCEPT !.isInitial = TRUE, !.override = << >>,
                        !.count = run.count + 1]
  /\ apc' = "begin"
  /\ UNCHANGED << engineVars, fcVars, ioVars, mulVars, callLog, dashVars,
                  appState, error, climatology, rawData >>

\* the run up to Step 0: setError(null), the loading state of a later run,
\* and the data source.  The dynamic import succeeds or fails; when it fails
\* the Error of line 57 is thrown outside the try block of line 67 and
\* rejects the promise nobody awaits
AppBegin ==
  /\ apc = "begin"
  /\ error' = "null"
  /\ appState' = IF run.isInitial THEN appState ELSE "LOADING"
  /\ IF ~IsEmptyString(run.override)
     THEN rawData' = run.override /\ apc' = "parse"
     ELSE IF run.isInitial /\ IsEmptyString(rawData)
          THEN \/ \E text \in BundledTexts : rawData' = text /\ apc' = "parse"
               \/ rawData' = rawData /\ apc' = "rejected"
          ELSE rawData' = rawData /\ apc' = "parse"
  /\ UNCHANGED << engineVars, fcVars, ioVars, mulVars, callLog, dashVars,
                  climatology, run >>

\* the try block up to the record check: csvText = rawDataRef.current,
\* parsedData = parseNASAData(csvText), and the two throws handleError gets
AppParse ==
  /\ apc = "parse"
  /\ csvText' = rawData
  /\ IF IsEmptyString(rawData)
     THEN /\ parsedData' = parsedData
          /\ HandleError("Internal Data Corruption: Source missing.")
     ELSE /\ parsedData' = ParseNASAData(rawData)
          /\ IF Len(ParseNASAData(rawData)) = 0
             THEN HandleError("Data Parsing Error: No valid meteorological records found.")
             ELSE /\ error' = error
                  /\ apc' = IF run.lat # BASE_LAT THEN "adjust" ELSE "train"
  /\ UNCHANGED << engineVars, fcVars, mulVars, callLog, dashVars,
                  ppc, adjArgs, given, appState, climatology, rawData, run >>

\* parsedData = adjustDataForLocation(parsedData, BASE_LAT, targetLat)
AppAdjust ==
  /\ apc = "adjust"
  /\ \E seed \in 1..MaxSeed :
       parsedData' = AdjustDataForLocation(parsedData, BASE_LAT, run.lat, seed)
  /\ apc' = "train"
  /\ UNCHANGED << engineVars, fcVars, mulVars, callLog, dashVars,
                  csvText, ppc, adjArgs, given,
                  appState, error, climatology, rawData, run >>

\* the timer callback of line 105 starts: calculateClimatology(parsedData)
AppCalculate ==
  /\ apc = "train"
  /\ WholeDates(parsedData)
  /\ EnterCall(EngineRecords(parsedData))
  /\ apc' = "calc"
  /\ UNCHANGED << fcVars, mulVars, callLog, dashVars,
                  csvText, parsedData, ppc, adjArgs,
                  appState, error, climatology, rawData, run >>

\* the call has returned: the size check, then setClimatology(clim)
AppStore ==
  /\ apc = "calc"
  /\ pc = "done"
  /\ IF SizeIsZero(climMap)
     THEN /\ HandleError("Model Training Error: Insufficient data points for regression.")
          /\ climatology' = climatology
     ELSE /\ climatology' = climMap
          /\ error' = error
          /\ apc' = "ready"
  /\ UNCHANGED << engineVars, fcVars, ioVars, mulVars, callLog, dashVars,
                  appState, rawData, run >>

\* the timer callback of line 115: setAppState(AppState.AUTH)
AppAuth ==
  /\ apc = "ready"
  /\ appState' = "AUTH"
  /\ apc' = "idle"
  /\ UNCHANGED << engineVars, fcVars, ioVars, mulVars, callLog, dashVars,
                  error, climatology, rawData, run >>

\* a later run is started: by the retry button of the error view, or from the
\* dashboard by handleLocationChange or handleFileUpload
AppUserRun ==
  /\ run.count < MaxRuns
  /\ \/ /\ apc = "failed"
        /\ run' = [run EXCEPT !.isInitial = FALSE, !.override = << >>,
                              !.count = run.count + 1]
     \/ /\ apc = "idle"
        /\ run' = [run EXCEPT !.isInitial = FALSE, !.override = << >>,
                              !.lat = Int2Num(61), !.count = run.count + 1]
     \/ /\ apc = "idle"
        /\ \E text \in { << EndHeader >>, FileText(MaxRecords, 1) } :
             run' = [run EXCEPT !.isInitial = FALSE, !.override = text,
                                !.count = run.count + 1]
  /\ apc' = "begin"
  /\ UNCHANGED << engineVars, fcVars, ioVars, mulVars, callLog, dashVars,
                  appState, error, climatology, rawData >>

\* App from its construction: the mount effect, then any runs the user starts
InitApp ==
  /\ EngineUnused /\ FcIdle /\ IoIdle /\ MulIdle
  /\ given = << >>
  /\ UiIdle

NextApp ==
  \/ AppMount
  \/ AppBegin
  \/ AppParse
  \/ AppAdjust
  \/ AppCalculate
  \/ Preprocess
  \/ TrainThrows
  \/ TrainStart
  \/ InverseStep
  \/ TrainFinish
  \/ TrainFallback
  \/ Seed
  \/ RolloutStep
  \/ Return
  \/ AppStore
  \/ AppAuth
  \/ AppUserRun

SpecApp == InitApp /\ [][NextApp]_vars

\* the position of the run and of the engine's loops
ctl == << apc, pc, col, doy >>

\* the control flow of one run, without the data: the move every step of the
\* program makes (all of SpecApp's actions but the user's AppUserRun).  It is
\* enabled exactly while a step of the run is pending
Advance ==
  \/ /\ \/ apc = "mount" /\ apc' = "begin"
        \/ apc = "begin" /\ apc' \in {"parse", "rejected"}
        \/ apc = "parse" /\ apc' \in {"failed", "adjust", "train"}
        \/ apc = "adjust" /\ apc' = "train"
        \/ apc = "calc" /\ pc = "done" /\ apc' \in {"failed", "ready"}
        \/ apc = "ready" /\ apc' = "idle"
     /\ UNCHANGED << pc, col, doy >>
  \/ /\ apc = "train"
     /\ apc' = "calc" /\ pc' = "call" /\ col' = 0 /\ doy' = 0
  \/ /\ apc = "calc"
     /\ apc' = apc
     /\ \/ pc = "call" /\ pc' = "try" /\ UNCHANGED << col, doy >>
        \/ pc = "try" /\ pc' = "catch" /\ UNCHANGED << col, doy >>
        \/ pc = "try" /\ pc' = "inverse" /\ col' = 1 /\ doy' = doy
        \/ pc = "catch" /\ pc' = "seed" /\ UNCHANGED << col, doy >>
        \/ pc = "inverse" /\ pc' = pc /\ col' = col + 1 /\ doy' = doy
        \/ pc = "inverse" /\ pc' = "seed" /\ UNCHANGED << col, doy >>
        \/ pc = "seed" /\ pc' = "rollout" /\ col' = col /\ doy' = 1
        \/ pc = "rollout" /\ pc' = pc /\ col' = col /\ doy' = doy + 1
        \/ pc = "rollout" /\ pc' = "done" /\ UNCHANGED << col, doy >>

\* a pending step is eventually taken: the promise continuations, the timer
\* callbacks and the loops of the synchronous engine all run to completion.
\* The user need not click
FairApp == SpecApp /\ WF_ctl(Advance)

\* ================================== Dashboard (src/components/Dashboard.tsx)
\* getForecast(climatology, startDoy, days), the loop of ForecastStep as a fold
RECURSIVE ForecastFrom(_, _, _, _, _)
ForecastFrom(cmap, currentDoy, i, days, acc) ==
  IF ~(i < days) \/ acc # acc THEN acc
  ELSE ForecastFrom(cmap, WrapDoy(currentDoy) + 1, i + 1, days,
                    PushClim(cmap, WrapDoy(currentDoy), acc))

\* the first effect: todayClim and nextDays are computed from the map and the
\* projectionDays of this render; the two setters schedule the next render
ForecastEffect ==
  /\ pending # << >>
  /\ Head(pending) = "forecast"
  /\ \E todayDOY \in {1, DAYS - 1} :
       IF todayDOY \in DOMAIN climatology
       THEN queued' =
              Append(queued,
                     [todayData |-> << climatology[todayDOY] >>,
                      forecast |->
                        [list |-> ForecastFrom(climatology, todayDOY, 0,
                                               projectionDays, << >>),
                         days |-> projectionDays]])
       ELSE UNCHANGED queued
  /\ pending' = Tail(pending)
  /\ UNCHANGED << engineVars, fcVars, ioVars, mulVars, callLog, appVars,
                  projectionDays, todayData, dashForecast, insight, loadingAI,
                  requests, outstanding >>

\* variant: the length guard of the insight effect never stops it
LengthAlwaysAccepted == FALSE

\* if (forecast.length !== projectionDays) return
LengthMismatch == Len(dashForecast.list) # projectionDays

\* a call of fetchWeatherInsights as the render sees it; its promise is pending
IssueRequest(caller) ==
  /\ loadingAI' = TRUE
  /\ requests' =
       Append(requests,
              [by |-> caller,
               days |-> projectionDays,
               selected |-> projectionDays,
               today |-> todayData # << >>,
               len |-> Len(dashForecast.list),
               computedFor |-> dashForecast.days])
  /\ outstanding' = outstanding \cup {Len(requests) + 1}

\* the second effect, with the state of the render it belongs to
InsightEffect ==
  /\ pending # << >>
  /\ Head(pending) = "insight"
  /\ IF todayData = << >> \/ Len(dashForecast.list) = 0 \/ LengthMismatch
     THEN UNCHANGED << loadingAI, requests, outstanding >>
     ELSE IssueRequest("effect")
  /\ pending' = Tail(pending)
  /\ UNCHANGED << engineVars, fcVars, ioVars, mulVars, callLog, appVars,
                  projectionDays, todayData, dashForecast, queued, insight >>

\* the render the setters of the first effect asked for: forecast is a new
\* array, so the second effect runs again; the first one's dependencies are
\* the same and it does not
Rerender ==
  /\ pending = << >>
  /\ queued # << >>
  /\ todayData' = queued[Len(queued)].todayData
  /\ dashForecast' = queued[Len(queued)].forecast
  /\ queued' = << >>
  /\ pending' = << "insight" >>
  /\ UNCHANGED << engineVars, fcVars, ioVars, mulVars, callLog, appVars,
                  projectionDays, insight, loadingAI, requests, outstanding >>

\* between two events React has rendered every scheduled update and run the
\* effects of that render
Settled == pending = << >> /\ queued = << >>

\* onClick={() => setProjectionDays(opt.value)}: a new value renders again, and
\* both effects depend on it
SetProjection ==
  /\ Settled
  /\ Len(requests) < MaxRequests
  /\ \E value \in {7, 14, 28} \ {projectionDays} :
       projectionDays' = value
  /\ pending' = << "forecast", "insight" >>
  /\ UNCHANGED << engineVars, fcVars, ioVars, mulVars, callLog, appVars,
                  todayData, dashForecast, queued, insight, loadingAI,
                  requests, outstanding >>

\* handleSearch with a query that is not blank: no state it sets is a
\* dependency of an effect
HandleSearch ==
  /\ Settled
  /\ Len(requests) < MaxRequests
  /\ todayData # << >>
  /\ IssueRequest("search")
  /\ UNCHANGED << engineVars, fcVars, ioVars, mulVars, callLog, appVars,
                  projectionDays, todayData, dashForecast, queued, pending,
                  insight >>

\* .then(res => { setInsight(res); setLoadingAI(false) }) of any pending call:
\* fetchWeatherInsights resolves in every case, in no particular order
Resolve ==
  /\ Settled
  /\ \E r \in outstanding :
       /\ insight' = r
       /\ outstanding' = outstanding \ {r}
  /\ loadingAI' = FALSE
  /\ UNCHANGED << engineVars, fcVars, ioVars, mulVars, callLog, appVars,
                  projectionDays, todayData, dashForecast, queued, pending,
                  requests >>

\* the Dashboard is mounted with the map App stored (one entry per day);
\* both effects are to run
InitDash ==
  /\ EngineUnused /\ FcIdle /\ IoIdle /\ MulIdle
  /\ given = << >>
  /\ callLog = << >>
  /\ appState = "DASHBOARD"
  /\ error = "null"
  /\ climatology = BaseMap
  /\ rawData = FileText(1, 0)
  /\ apc = "idle"
  /\ run = [isInitial |-> TRUE, override |-> << >>, lat |-> BASE_LAT,
            count |-> 1]
  /\ projectionDays = 7
  /\ todayData = << >>
  /\ dashForecast = [list |-> << >>, days |-> 0]
  /\ queued = << >>
  /\ pending = << "forecast", "insight" >>
  /\ insight = 0
  /\ loadingAI = FALSE
  /\ requests = << >>
  /\ outstanding = {}

NextDash ==
  \/ ForecastEffect
  \/ InsightEffect
  \/ Rerender
  \/ SetProjection
  \/ HandleSearch
  \/ Resolve

SpecDash == InitDash /\ [][NextDash]_vars

\* ============================================================== properties

\* C1: for every record list with at least 8 records the returned map has
\* exactly the keys 1..366 and the entry under key d has doy = d.
C1_CompleteKeys ==
  (pc = "done" /\ Len(data) >= WINDOW_SIZE + 1) =>
     /\ DOMAIN climMap = 1..DAYS
     /\ \A d \in DOMAIN climMap : climMap[d].doy = d

\* a call on at least 8 records that trained on X and returned
C1_Witness ==
  pc = "done" /\ Len(data) >= WINDOW_SIZE + 1 /\ Len(X) >= 1 /\ caught = "none"

\* C2: with 7 or fewer records calculateClimatology reports an explicit
\* insufficient-data failure; it does not return a map as a success (and
\* does not take the singular-matrix fallback to do so).
C2_ShortInputFails ==
  pc = "done" => Len(data) > WINDOW_SIZE

\* C3: a day of year with no input record gets avgPrecip = 0 and count = 0.
C3_EmptyDayZeroCount ==
  pc = "done" =>
     \A d \in 1..DAYS :
        (\A i \in 1..Len(data) : data[i].doy # d) =>
           /\ d \in DOMAIN climMap
           /\ climMap[d].avgPrecip = Zero
           /\ climMap[d].count = 0

\* some column of inverse read a pivot with absolute value below 1e-10
SmallPivotRead == \E i \in 1..Len(pivots) : BelowEpsilon(pivots[i])

\* C4: inverse fails explicitly (control reaches the caller's catch) whenever
\* a selected pivot is below 1e-10 in absolute value; it never goes on to
\* return a numeric matrix.
C4_SmallPivotThrows ==
  SmallPivotRead => pc = "catch"

\* XtX was built from fewer rows than it has columns, so its rank is below 10
XtXSingular == Len(X) >= 1 /\ Len(X) < NUM_WEIGHTS

\* C5: whenever XtX is singular the rollout uses exactly the fallback weight
\* vector [0.5, 0, ..., 0].
C5_SingularUsesFallback ==
  (pc \in {"seed", "rollout", "done"} /\ XtXSingular) =>
     weights = FallbackWeights

\* the field names carried by the entries of a returned map
ReturnedFields(r) == UNION {DOMAIN r[d] : d \in DOMAIN r}

ClimatologyFields == {"doy", "avgTemp", "avgPrecip", "count"}

\* C6: the climMap carries a flag that is set exactly when the fallback weight
\* vector was used.
C6_FallbackFlagged ==
  pc = "done" =>
     \E f \in ReturnedFields(climMap) \ ClimatologyFields :
        \A d \in DOMAIN climMap : climMap[d][f] = (caught # "none")

\* C7: for any input, at every rollout step the lag buffer holds exactly 7
\* entries before and after the shift and the feature row holds 10 entries.
C7_BufferLengthSeven ==
  pc = "rollout" =>
     /\ Len(currentLags) = WINDOW_SIZE
     /\ RolloutContinues(doy) =>
           Len(FeatureRow(doy, currentLags)) = NUM_WEIGHTS

\* C8: given at least 7 training values, at the start of the step for day d
\* the lag buffer is the predictions of days d-1, ..., 1 followed by the
\* training values, newest first, cut to 7 entries; from day 8 on it holds
\* predictions only.
C8_LagsArePredictionsThenSeed ==
  (pc = "rollout" /\ Len(scaledTemps) >= WINDOW_SIZE) =>
     /\ Len(preds) = doy - 1
     /\ currentLags =
          SubSeq(Reverse(preds) \o Reverse(scaledTemps), 1, WINDOW_SIZE)
     /\ doy >= WINDOW_SIZE + 1 =>
           \A k \in 1..WINDOW_SIZE : currentLags[k] = preds[doy - k]

\* the step for day 9 is about to run on a trained model: seed values and
\* predictions have both passed through the buffer
C8_Witness ==
  /\ pc = "rollout"
  /\ Len(scaledTemps) >= WINDOW_SIZE + 1
  /\ doy = WINDOW_SIZE + 2
  /\ \E k \in 1..WINDOW_SIZE : scaledTemps[Len(scaledTemps) + 1 - k] # preds[1]

\* C9: on a map with all keys 1..366, for startDay s in 1..366 and numDays n
\* in 0..366, getForecast returns n entries, the k-th with
\* doy = ((s - 1 + k) mod 366) + 1; getForecast(map, 364, 5) yields
\* 364, 365, 366, 1, 2.
C9_WrapAround ==
  ( /\ fpc = "returned"
    /\ DOMAIN climMap = 1..DAYS
    /\ \A d \in 1..DAYS : climMap[d].doy = d
    /\ fcArgs.startDoy \in 1..DAYS
    /\ fcArgs.days \in 0..DAYS ) =>
     /\ Len(forecast) = fcArgs.days
     /\ \A k \in 0..(fcArgs.days - 1) :
           forecast[k + 1].doy = ((fcArgs.startDoy - 1 + k) % DAYS) + 1
     /\ (fcArgs.startDoy = 364 /\ fcArgs.days = 5) =>
           [k \in 1..5 |-> forecast[k].doy] = << 364, 365, 366, 1, 2 >>

\* getForecast(map, 364, 5) returned on a map computed by calculateClimatology
C9_Witness ==
  /\ fpc = "returned"
  /\ pc = "done"
  /\ Len(data) >= 1
  /\ DOMAIN climMap = 1..DAYS
  /\ fcArgs = [startDoy |-> 364, days |-> 5]
  /\ Len(forecast) = 5

\* the day read by iteration k (from 0) of getForecast(map, s, n)
VisitedDay(s, k) ==
  LET v == (IF s > DAYS THEN DAYS + 1 ELSE s) + k
  IN  IF v <= DAYS THEN v ELSE ((v - DAYS - 1) % DAYS) + 1

\* the days read so far that the map holds, in visiting order
VisitedPresent ==
  SelectSeq([k \in 1..fcI |-> VisitedDay(fcArgs.startDoy, k - 1)],
            LAMBDA d : d \in DOMAIN climMap)

\* C10: for any map, startDay and numDays, getForecast returns at most
\* numDays entries; they are the values stored under the visited days that
\* the map holds, in visiting order, and a visited day absent from the map
\* contributes no entry.
C10_SkipsMissing ==
  fpc \in {"loop", "returned"} =>
     LET present == VisitedPresent
     IN  /\ Len(forecast) <= fcArgs.days
         /\ forecast = [j \in 1..Len(present) |-> climMap[present[j]]]

\* a call returned after visiting both stored and missing days
C10_Witness ==
  /\ fpc = "returned"
  /\ Len(forecast) >= 2
  /\ Len(forecast) < fcArgs.days
  /\ \E k \in 0..(fcArgs.days - 1) :
        VisitedDay(fcArgs.startDoy, k) \notin DOMAIN climMap

DataLinesAfterHeader ==
  { i \in 1..Len(csvText) :
      /\ \E h \in 1..(i - 1) : Trim(csvText[h]) = EndHeader
      /\ Trim(csvText[i]) # << >>
      /\ Trim(csvText[i]) # EndHeader
      /\ ~IsColumnHeader(Trim(csvText[i])) }

\* the first four fields are present, non-empty and finite numbers
FiniteFields(trimmed) ==
  LET parts == Split(trimmed)
  IN  /\ Len(parts) >= 4
      /\ \A k \in 1..4 :
           Trim(parts[k]) # << >> /\ IsFinite(ToNumber(parts[k]))

\* C12: after the sentinel, a line with a field that is empty, non-numeric
\* or infinite yields no record, and the other lines still yield theirs:
\* there is one record per data line whose four fields are finite numbers.
C12_NonFiniteFieldDropped ==
  ppc = "parsed" =>
    Len(parsedData) =
      Cardinality({ i \in DataLinesAfterHeader :
                      FiniteFields(Trim(csvText[i])) })

\* C13: every record the parser returns has a whole day of year in 1..366.
C13_DoyInRange ==
  ppc = "parsed" =>
    \A i \in 1..Len(parsedData) :
      /\ parsedData[i].doy.d = 1
      /\ parsedData[i].doy.n \in 1..DAYS

\* C14: for a parsed (and possibly relocated) file every returned entry has
\* avgPrecip >= 0 and count >= 0.
C14_PrecipNonNegative ==
  (pc = "done" /\ ppc = "called") =>
    \A d \in DOMAIN climMap :
      /\ ~IsNaN(climMap[d].avgPrecip)
      /\ ~Lt(climMap[d].avgPrecip, Zero)
      /\ climMap[d].count >= 0

\* ---------------------------------------------------------- preprocessing
\* the raw temperatures of the (sorted) records
GivenTemps == [i \in 1..Len(data) |-> data[i].tempRange]

\* -5 < mean < 15 for a finite total, by cross-multiplication
MeanStrictlyInside(total, count) ==
  /\ IsFinite(total)
  /\ total.n > -5 * count * total.d
  /\ total.n < 15 * count * total.d

\* C15: the scaler is fitted on, and the scaled series computed from, every
\* raw temperature plus 20 when -5 < mean < 15, and the raw temperatures
\* themselves otherwise (mean = -5 and mean = 15 included).
C15_BiasIffMeanInRange ==
  (pc = "try" /\ Len(data) > 0) =>
    LET raw == GivenTemps
        off == IF MeanStrictlyInside(SumSeq(raw), Len(raw))
               THEN Int2Num(20) ELSE Zero
        passed == [i \in 1..Len(raw) |-> Add(raw[i], off)]
    IN  /\ scaler.min = NumMin(passed)
        /\ \A i \in 1..Len(raw) :
             scaledTemps[i] = Transform1(scaler, passed[i])

\* a list of unequal temperatures with mean exactly 15 went through unchanged
C15_Witness ==
  /\ pc = "try"
  /\ Len(data) >= 2
  /\ SumSeq(GivenTemps) = Int2Num(15 * Len(data))
  /\ NumMin(GivenTemps) # NumMax(GivenTemps)
  /\ scaler.min = NumMin(GivenTemps)

\* C16: once fit has run, max > min.
C16_MaxAboveMin ==
  pc \notin {"wait", "call"} => Lt(scaler.min, scaler.max)

\* values given to transform: inside and outside every fitted range, one of
\* them not representable without rounding once shifted
ProbeValues == { Int2Num(-50), Int2Num(12), Int2Num(100), Norm(1, 7001) }

RoundTrip(x) == InverseTransform(scaler, Transform1(scaler, x))

EndsMapToUnitInterval ==
  /\ Transform1(scaler, scaler.min) = Zero
  /\ Transform1(scaler, scaler.max) = One

C18_MismatchFails ==
  ( /\ mulOut.threw # "pending"
    /\ Len(mulA) > 0
    /\ Len(mulB) > 0
    /\ Len(mulA[1]) # Len(mulB) )
    => mulOut.threw # "none"

\* C19: N sorted records give max(N - 7, 0) pairs; the pair of the record at
\* 1-based position i = r + 7 is [1, sin, cos, s[i-1], ..., s[i-7]] with the
\* doy of that record, and its target is s[i].
C19_FeatureRows ==
  pc = "try" =>
    LET N == Len(data)
        s == scaledTemps
        pairs == IF N > 7 THEN N - 7 ELSE 0
    IN  /\ Len(X) = pairs
        /\ Len(y) = pairs
        /\ \A r \in 1..pairs :
             LET i == r + 7
             IN  /\ X[r] = << One, SinDoy(data[i].doy), CosDoy(data[i].doy),
                              s[i - 1], s[i - 2], s[i - 3], s[i - 4],
                              s[i - 5], s[i - 6], s[i - 7] >>
                 /\ y[r] = << s[i] >>

\* two different training rows were built
C19_Witness ==
  /\ pc = "try"
  /\ Len(data) >= 9
  /\ Len(X) >= 2
  /\ X[1] # X[2]

\* C20: each finite temperature changes by noise - 0.75 * (|target| - |base|),
\* and by 5 less when |target| > 60; nothing else is subtracted at
\* |target| = 60.
C20_TemperatureShift ==
  ppc = "adjusted" =>
    /\ Len(parsedData) = Len(adjArgs.data)
    /\ \A i \in 1..Len(parsedData) :
         LET before == adjArgs.data[i].tempRange
             target == NumAbs(adjArgs.newLat)
             noise == Noise(adjArgs.data[i].doy,
                            RandomDraw(adjArgs.seed, 2 * i - 1))
             term == Add(noise,
                         Mul(Norm(-3, 4),
                             Sub(target, NumAbs(adjArgs.baseLat))))
             change == Sub(parsedData[i].tempRange, before)
         IN  IsFinite(before) =>
               change = IF Lt(Int2Num(60), target)
                        THEN Sub(term, Int2Num(5)) ELSE term

\* records were relocated to 61 degrees south
C20_Witness ==
  /\ ppc = "adjusted"
  /\ adjArgs.newLat = Int2Num(-61)
  /\ \E i \in 1..Len(parsedData) : IsFinite(adjArgs.data[i].tempRange)

\* the input records with day of year d
RecordsOfDay(recs, d) == {i \in 1..Len(recs) : recs[i].doy = d}

\* the sum of the precip values of the input records with day of year d
PrecipTotal(recs, d) ==
  SumSeq([i \in 1..Len(recs) |->
            IF recs[i].doy = d THEN recs[i].precip ELSE Zero])

\* C23: for every day d of 1..366 with at least one input record of that
\* day, the returned entry has count = the number of input records with
\* doy = d and avgPrecip = the mean of their precip values rounded to two
\* decimals.
C23_CountAndMean ==
  pc = "done" =>
    \A d \in 1..DAYS :
      RecordsOfDay(given, d) # {} =>
        /\ climMap[d].count = Cardinality(RecordsOfDay(given, d))
        /\ climMap[d].avgPrecip =
             ToFixed2(Div(PrecipTotal(given, d),
                          Int2Num(Cardinality(RecordsOfDay(given, d)))))

\* a finished call in which some day has two records with different precip
C23_Witness ==
  /\ pc = "done"
  /\ \E i, j \in 1..Len(given) :
       /\ given[i].doy = given[j].doy
       /\ given[i].year # given[j].year
       /\ given[i].precip # given[j].precip
       /\ climMap[given[i].doy].count >= 2

\* C26: after the call the list the caller passed holds the same records in
\* the same order as before the call.
C26_ListUnchanged == pc = "done" => data = given

\* C25: for any record list returned by the parser, the series the engine
\* trains on is in non-decreasing (year, doy) order.
C25_LexicographicOrder ==
  (ppc = "called" /\ pc \notin {"wait", "call"}) =>
    \A i \in 1..(Len(data) - 1) :
      \/ data[i].year < data[i + 1].year
      \/ data[i].year = data[i + 1].year /\ data[i].doy <= data[i + 1].doy

\* the call was made on thirty records that all carry the temperature c
ConstantSeries(c) ==
  /\ Len(given) = 30
  /\ \A i \in 1..Len(given) : given[i].tempRange = c

\* C22: for a series of 30 records with the same temperature c, every avgTemp
\* of the returned map equals c within a tolerance of 0.01.
C22_ConstantSeries ==
  \A c \in {given[i].tempRange : i \in 1..Len(given)} :
    (pc = "done" /\ ConstantSeries(c)) =>
      \A d \in 1..DAYS :
        /\ IsFinite(climMap[d].avgTemp)
        /\ ~Lt(Norm(1, 100), NumAbs(Sub(climMap[d].avgTemp, c)))

\* C30: for every input list, the empty list and lists of 7 or fewer
\* records included, the call returns a map of exactly 366 entries and the
\* only exception raised on the way is the one the catch block handles; so
\* the caller's test clim.size === 0 is false on every returned map.
C30_NeverEmpty ==
  /\ pc = "done" =>
        /\ Cardinality(DOMAIN climMap) = DAYS
        /\ ~SizeIsZero(climMap)
  /\ caught # "none" =>
        /\ caught = "TypeError"
        /\ pc \in {"catch", "seed", "rollout", "done"}

\* the call on the empty list has returned, after the catch block ran
C30_Witness ==
  /\ pc = "done"
  /\ given = << >>
  /\ caught = "TypeError"
  /\ ~SizeIsZero(climMap)

ParseReturnsEmpty ==
  /\ apc = "parse"
  /\ ~IsEmptyString(rawData)
  /\ Len(ParseNASAData(rawData)) = 0

\* C21: whenever parseNASAData returns an empty list, the run ends with error
\* set to the 'no valid records' message, calculateClimatology is not entered
\* in that run (the engine's state stays as the previous run left it until a
\* new run starts) and the stored climatology map is unchanged: it changes
\* only when a call on a non-empty list has returned.
C21_EmptyParseIsError ==
  [][ /\ ParseReturnsEmpty =>
           /\ error' = "Data Parsing Error: No valid meteorological records found."
           /\ apc' = "failed"
           /\ climatology' = climatology
           /\ UNCHANGED engineVars
      /\ apc = "failed" =>
           /\ error' = error
           /\ climatology' = climatology
           /\ UNCHANGED engineVars
      /\ climatology' # climatology =>
           /\ apc = "calc"
           /\ Len(parsedData) > 0 ]_vars

\* a run on a file without records has ended in the error state while the map
\* of an earlier, successful run is still stored
C21_Witness ==
  /\ apc = "failed"
  /\ parsedData = << >>
  /\ csvText = << EndHeader >>
  /\ error = "Data Parsing Error: No valid meteorological records found."
  /\ climatology # NoMap
  /\ climatology = climMap

\* C29: every run of processDataSequence eventually ends in one of two
\* outcomes: the map is stored and appState has left LOADING, or error is set
\* to a message; no failure leaves the app loading with error = null.
C29_RunEnds ==
  (apc = "begin") ~>
     \/ error # "null"
     \/ apc = "idle" /\ appState # "LOADING" /\ climatology = climMap

\* C27: every request the insight effect issues is made with todayData set and
\* a forecast list of exactly projectionDays entries, passes days =
\* projectionDays, and uses a list that was computed for that projectionDays
C27_EffectRequestsMatch ==
  \A i \in 1..Len(requests) :
    requests[i].by = "effect" =>
      /\ requests[i].today
      /\ requests[i].len = requests[i].selected
      /\ requests[i].days = requests[i].selected
      /\ requests[i].computedFor = requests[i].selected

\* the effect has issued a request after projectionDays was changed
C27_Witness ==
  \E i \in 1..Len(requests) :
    /\ requests[i].by = "effect"
    /\ requests[i].selected # 7
    /\ requests[i].len = requests[i].selected

\* C28: once every request has resolved, insight shows the response to the
\* request issued last; and loadingAI is false only when none is outstanding
C28_LatestResponseShown ==
  /\ (outstanding = {} /\ requests # << >>) => insight = Len(requests)
  /\ ~loadingAI => outstanding = {}

====
